---- MODULE Spec2Model ----
(***************************************************************************)
(* Model of ed::RenderEngine (src/Objects/RenderEngine.cpp): the cache of  *)
(* compiled shader objects (m_items, m_vs, m_ps), its reconciler m_cache,  *)
(* Recompile, FlushCache and the frame step Render.                        *)
(*                                                                         *)
(* Indices are 1-based here; the C++ index i0 is the index i0 + 1.         *)
(* A pipeline item is represented by its identity (the Data pointer the    *)
(* code compares).  A shader object is a token [stage, owner, n]: owner is *)
(* the identity it was created for, n tells apart objects that would be    *)
(* alive at the same time for the same stage and owner.                    *)
(***************************************************************************)
EXTENDS Integers, Sequences, FiniteSets, TLC

\* ------------------------------------------------------------------ bounds
MaxLen == 2         \* longest external list under Spec
ReorderLen == 4     \* longest external list under SpecReorder
MaxDim == 1         \* largest viewport width and height under SpecResize

\* --------------------------------------------------------- program constant
\* m_cacheTimer.GetElapsedTime() > 0.5f, in units of half a time-unit
CacheDelay == 1

\* the code only tests  elapsed > 0.5 : one value past the delay stands for
\* every later reading of the timer
MaxElapsed == CacheDelay + 1

\* the items the pipeline manager picks from: three shader passes
Ids == {1, 2, 3}

\* the viewport sizes Render is called with
Sizes == {<<1, 1>>}

Names == {"X", "Y"}

\* item->Name: display names repeat (identities 1 and 3 share "X")
NameOf(d) == IF d % 2 = 1 THEN "X" ELSE "Y"

\* data->Items of a shader pass: its child items, in list order
Children(d) ==
    IF d % 2 = 1 THEN <<"BlendState", "Geometry">>
    ELSE <<"Geometry", "DepthStencilState">>

VARIABLES
    items,        \* m_pipeline->GetList(): the external list (identities)
    m_items,      \* snapshot
    m_vs,         \* vertex shader objects
    m_ps,         \* pixel shader objects
    m_lastSize,   \* <<x, y>>
    elapsed,      \* m_cacheTimer.GetElapsedTime(), half units, saturating
    heap,         \* the shader objects that are allocated and not deleted
    passState,    \* cached identity -> "Ready" | "Failed" (its last compile)
    msgs,         \* groups of the message stack that hold an error entry
    calls,        \* the calls issued by the most recent operation, in order
    lastOp,       \* the most recent operation
    crashed       \* the process died in an out-of-range access

vars == <<items, m_items, m_vs, m_ps, m_lastSize, elapsed, heap, passState,
          msgs, calls, lastOp, crashed>>

\* ----------------------------------------------------------------- helpers
Range(s) == {s[k] : k \in 1..Len(s)}

Distinct(s) == \A a, b \in 1..Len(s) : a # b => s[a] # s[b]

\* std::vector::insert(begin() + i0, x) with pos = i0 + 1
InsertAt(s, pos, x) == SubSeq(s, 1, pos - 1) \o <<x>> \o SubSeq(s, pos, Len(s))

\* std::vector::erase(begin() + i0) with pos = i0 + 1
EraseAt(s, pos) == SubSeq(s, 1, pos - 1) \o SubSeq(s, pos + 1, Len(s))

\* d is an element of sequence s
Found(d, s) == \E j \in 1..Len(s) : s[j] = d

\* new ml::VertexShader() / new ml::PixelShader(): an object not alive yet
NewObj(h, stage, d) ==
    LET free == {n \in 0..Cardinality(h) :
                    [stage |-> stage, owner |-> d, n |-> n] \notin h}
        n0 == CHOOSE n \in free : \A m \in free : n <= m
    IN  [stage |-> stage, owner |-> d, n |-> n0]

\* the cache part of the engine state, threaded through the loops
Ctx == [mi |-> m_items, vs |-> m_vs, ps |-> m_ps, heap |-> heap,
        st |-> passState, msgs |-> msgs, calls |-> <<>>, crashed |-> FALSE]

Log(c, e) == [c EXCEPT !.calls = Append(@, e)]

\* the engine object exists and the process has not died
Running == ~crashed /\ lastOp.op # "~RenderEngine"

\* o->LoadFromMemory(...) with result ok
Compile(c, o, ok) == Log(c, [op |-> "compile", obj |-> o, ok |-> ok])

\* SetState that takes a pass for failed only when both stages failed
SetStateBothFail(c, d, vsCompiled, psCompiled) ==
    [c EXCEPT !.st = [x \in DOMAIN c.st \cup {d} |->
                        IF x = d
                        THEN (IF ~vsCompiled /\ ~psCompiled
                              THEN "Failed" ELSE "Ready")
                        ELSE c.st[x]]]

\* the compile state of pass d after a compile of its two stages
SetState(c, d, vsCompiled, psCompiled) ==
    [c EXCEPT !.st = [x \in DOMAIN c.st \cup {d} |->
                        IF x = d
                        THEN (IF ~vsCompiled \/ ~psCompiled
                              THEN "Failed" ELSE "Ready")
                        ELSE c.st[x]]]

\* m_msgs->Add(Error, name, ...) / m_msgs->ClearGroup(name)
Report(c, name, vsCompiled, psCompiled) ==
    IF ~vsCompiled \/ ~psCompiled
    THEN [Log(c, [op |-> "Add", group |-> name])
            EXCEPT !.msgs = c.msgs \cup {name}]
    ELSE [Log(c, [op |-> "ClearGroup", group |-> name])
            EXCEPT !.msgs = c.msgs \ {name}]

\* delete o
Delete(c, o) ==
    IF o \in c.heap
    THEN [Log(c, [op |-> "delete", obj |-> o]) EXCEPT !.heap = c.heap \ {o}]
    ELSE [Log(c, [op |-> "delete", obj |-> o]) EXCEPT !.crashed = TRUE]

\* ---------------------------------------------------------------- m_cache
\* CacheItem with push_back of the two shader objects instead of insert at i
CacheItemPushBack(c, ext, i, vsCompiled, psCompiled) ==
    LET d  == ext[i]
        vShader == NewObj(c.heap, "vs", d)
        pShader == NewObj(c.heap \cup {vShader}, "ps", d)
        c1 == [c EXCEPT !.mi = InsertAt(c.mi, i, d),
                        !.heap = c.heap \cup {vShader, pShader},
                        !.calls = @ \o <<[op |-> "new", obj |-> vShader],
                                         [op |-> "new", obj |-> pShader]>>]
        c2 == Compile(c1, vShader, vsCompiled)
        c3 == Compile(c2, pShader, psCompiled)
        c4 == Report(SetState(c3, d, vsCompiled, psCompiled),
                     NameOf(d), vsCompiled, psCompiled)
    IN  [c4 EXCEPT !.vs = Append(c.vs, vShader),
                   !.ps = Append(c.ps, pShader)]

\* "ITEM CACHING": the body of  if (!found)  in the insert loop
CacheItem(c, ext, i, vsCompiled, psCompiled) ==
    IF i > Len(c.mi) + 1
    THEN [c EXCEPT !.crashed = TRUE]      \* insert past end()
    ELSE
    LET d  == ext[i]
        vShader == NewObj(c.heap, "vs", d)
        pShader == NewObj(c.heap \cup {vShader}, "ps", d)
        c1 == [c EXCEPT !.mi = InsertAt(c.mi, i, d),
                        !.heap = c.heap \cup {vShader, pShader},
                        !.calls = @ \o <<[op |-> "new", obj |-> vShader],
                                         [op |-> "new", obj |-> pShader]>>]
        c2 == Compile(c1, vShader, vsCompiled)
        c3 == Compile(c2, pShader, psCompiled)
        c4 == Report(SetState(c3, d, vsCompiled, psCompiled),
                     NameOf(d), vsCompiled, psCompiled)
    IN  [c4 EXCEPT !.vs = InsertAt(c.vs, i, vShader),
                   !.ps = InsertAt(c.ps, i, pShader)]

\* FoundInCache with the loop bound  j < m_items.size() - 1
FoundInCacheSkipLast(d, mi) == \E j \in 1..Len(mi) - 1 : d = mi[j]

\* the inner loop of the insert loop: is identity d in the snapshot mi
FoundInCache(d, mi) == \E j \in 1..Len(mi) : d = mi[j]

\* "check if some item was added": one outcome per result of the compiles
RECURSIVE InsertLoop(_, _, _)
InsertLoop(c, ext, i) ==
    IF c.crashed \/ i > Len(ext) THEN {c}
    ELSE IF FoundInCache(ext[i], c.mi) THEN InsertLoop(c, ext, i + 1)
    ELSE UNION { InsertLoop(c1, ext, i + 1) :
                    c1 \in {CacheItem(c, ext, i, v, p) :
                                v \in BOOLEAN, p \in BOOLEAN} }

\* the body of  if (!found)  in the remove loop
EraseEntry(c, i) ==
    LET c1 == Delete(c, c.vs[i])
        c2 == Delete(c1, c.ps[i])
        rest == EraseAt(c.mi, i)
    IN  [c2 EXCEPT !.vs = EraseAt(c.vs, i),
                   !.ps = EraseAt(c.ps, i),
                   !.mi = rest,
                   !.st = [x \in Range(rest) |-> c.st[x]]]

\* the inner loop of the remove loop: is identity d in the external list
FoundInList(d, ext) == \E j \in 1..Len(ext) : ext[j] = d

\* "check if some item was removed": i++ runs after an erase as well
RECURSIVE RemoveLoop(_, _, _)
RemoveLoop(c, ext, i) ==
    IF c.crashed \/ i > Len(c.mi) THEN c
    ELSE IF FoundInList(c.mi[i], ext) THEN RemoveLoop(c, ext, i + 1)
    ELSE RemoveLoop(EraseEntry(c, i), ext, i + 1)

\* MoveEntry that relocates the item and the pixel object, not the vertex one
MoveEntryVsStays(c, ext, i, j) ==
    LET dest   == IF j > i THEN j - 1 ELSE j
        psCopy == c.ps[i]
    IN  [Log(c, [op |-> "move", item |-> ext[j], from |-> i, to |-> dest])
            EXCEPT !.mi = InsertAt(EraseAt(c.mi, i), dest, ext[j]),
                   !.ps = InsertAt(EraseAt(c.ps, i), dest, psCopy)]

\* "we found the original position so move the item"
MoveEntry(c, ext, i, j) ==
    LET dest   == IF j > i THEN j - 1 ELSE j
        vsCopy == c.vs[i]
        psCopy == c.ps[i]
    IN  [Log(c, [op |-> "move", item |-> ext[j], from |-> i, to |-> dest])
            EXCEPT !.mi = InsertAt(EraseAt(c.mi, i), dest, ext[j]),
                   !.vs = InsertAt(EraseAt(c.vs, i), dest, vsCopy),
                   !.ps = InsertAt(EraseAt(c.ps, i), dest, psCopy)]

\* for (j ...) of the move loop: it goes on after a move
RECURSIVE MoveInner(_, _, _, _)
MoveInner(c, ext, i, j) ==
    IF j > Len(ext) THEN c
    ELSE IF ext[j] = c.mi[i]
         THEN MoveInner(MoveEntry(c, ext, i, j), ext, i, j + 1)
         ELSE MoveInner(c, ext, i, j + 1)

\* "check if the order of the items changed".  items[i] with i past the end
\* of the external list is an out-of-range read: the process dies, or the
\* comparison gives either result.
RECURSIVE MoveLoop(_, _, _)
MoveLoop(c, ext, i) ==
    IF c.crashed \/ i > Len(c.mi) THEN {c}
    ELSE IF i > Len(ext)
         THEN {[c EXCEPT !.crashed = TRUE]}
              \cup MoveLoop(c, ext, i + 1)
              \cup UNION { MoveLoop(c1, ext, i + 1) :
                               c1 \in {MoveInner(c, ext, i, 1)} }
    ELSE IF ext[i] # c.mi[i]
         THEN UNION { MoveLoop(c1, ext, i + 1) :
                         c1 \in {MoveInner(c, ext, i, 1)} }
         ELSE MoveLoop(c, ext, i + 1)

\* the three loops of m_cache, after the throttle check
FullScan(c, ext) ==
    UNION { MoveLoop(c2, ext, 1) :
                c2 \in {RemoveLoop(c1, ext, 1) : c1 \in InsertLoop(c, ext, 1)} }

\* Throttled with  >=  in place of  >
ThrottledAtLeast(c, ext, t) == Len(c.mi) = Len(ext) /\ ~(t >= CacheDelay)

\* "check if no major changes were made": TRUE when m_cache returns early
Throttled(c, ext, t) == Len(c.mi) = Len(ext) /\ ~(t > CacheDelay)

\* m_cacheTimer after m_cache
TimerAfter(c, ext, t) ==
    IF Len(c.mi) = Len(ext) /\ t > CacheDelay THEN 0 ELSE t

\* RenderEngine::m_cache: the set of outcomes
m_cache(c, ext, t) ==
    IF Throttled(c, ext, t) THEN {c} ELSE FullScan(c, ext)

\* ----------------------------------------------------------------- Render
\* PassCalls that reads entry 0 of the three vectors in every iteration
PassCallsFirstEntry(c, i) ==
    LET d == c.mi[1]
    IN  <<[op |-> "SetInputLayout", item |-> d],
          [op |-> "BindVariables", item |-> d],
          [op |-> "Bind", obj |-> c.vs[1]],
          [op |-> "Bind", obj |-> c.ps[1]],
          [op |-> "DefaultState", item |-> d]>>
        \o [k \in 1..Len(Children(d)) |->
                [op |-> Children(d)[k], item |-> d, child |-> k]]

\* PassCalls without  DefaultState::Instance().Bind()
PassCallsNoDefault(c, i) ==
    LET d == c.mi[i]
    IN  <<[op |-> "SetInputLayout", item |-> d],
          [op |-> "BindVariables", item |-> d],
          [op |-> "Bind", obj |-> c.vs[i]],
          [op |-> "Bind", obj |-> c.ps[i]]>>
        \o [k \in 1..Len(Children(d)) |->
                [op |-> Children(d)[k], item |-> d, child |-> k]]

\* the calls of one iteration of the draw loop for snapshot entry i
PassCalls(c, i) ==
    LET d == c.mi[i]
    IN  <<[op |-> "SetInputLayout", item |-> d],
          [op |-> "BindVariables", item |-> d],
          [op |-> "Bind", obj |-> c.vs[i]],
          [op |-> "Bind", obj |-> c.ps[i]],
          [op |-> "DefaultState", item |-> d]>>
        \o [k \in 1..Len(Children(d)) |->
                [op |-> Children(d)[k], item |-> d, child |-> k]]

\* for (i ...) over m_items in Render
RECURSIVE DrawLoop(_, _)
DrawLoop(c, i) ==
    IF i > Len(c.mi) THEN <<>> ELSE PassCalls(c, i) \o DrawLoop(c, i + 1)

\* RenderTargetCalls with && in place of ||
RenderTargetCallsBothDiffer(last, width, height) ==
    IF last[1] # width /\ last[2] # height
    THEN <<[op |-> "CreateRT", size |-> <<width, height>>],
           [op |-> "CreateRTView", size |-> <<width, height>>]>>
    ELSE <<>>

\* "recreate render texture if size is changed"
RenderTargetCalls(last, width, height) ==
    IF last[1] # width \/ last[2] # height
    THEN <<[op |-> "CreateRT", size |-> <<width, height>>],
           [op |-> "CreateRTView", size |-> <<width, height>>]>>
    ELSE <<>>

\* AfterCache that leaves the frame when a cached pass failed to compile
AfterCacheStopOnFailure(c) ==
    IF c.crashed \/ (\E d \in DOMAIN c.st : c.st[d] = "Failed") THEN c
    ELSE [c EXCEPT !.calls = @ \o <<[op |-> "BindRT"], [op |-> "ClearRT"],
                                    [op |-> "SetViewport"]>>
                                \o DrawLoop(c, 1)
                                \o <<[op |-> "BindWindow"]>>]

\* what Render does once m_cache has returned with outcome c
AfterCache(c) ==
    IF c.crashed THEN c
    ELSE [c EXCEPT !.calls = @ \o <<[op |-> "BindRT"], [op |-> "ClearRT"],
                                    [op |-> "SetViewport"]>>
                                \o DrawLoop(c, 1)
                                \o <<[op |-> "BindWindow"]>>]

\* the part of the state a Ctx outcome holds
Commit(c) ==
    /\ m_items' = c.mi
    /\ m_vs' = c.vs
    /\ m_ps' = c.ps
    /\ heap' = c.heap
    /\ passState' = c.st
    /\ msgs' = c.msgs
    /\ calls' = c.calls
    /\ crashed' = c.crashed

\* RenderEngine::Render(width, height)
Render(width, height) ==
    /\ Running
    /\ LET c0 == [Ctx EXCEPT !.calls =
                    RenderTargetCalls(m_lastSize, width, height)
                    \o <<[op |-> "SetViewportSize",
                          size |-> <<width, height>>]>>]
       IN  \E c \in m_cache(c0, items, elapsed) : Commit(AfterCache(c))
    /\ m_lastSize' = <<width, height>>
    /\ elapsed' = TimerAfter(Ctx, items, elapsed)
    /\ lastOp' = [op |-> "Render", arg |-> <<width, height>>]
    /\ UNCHANGED items

\* -------------------------------------------------------------- Recompile
\* RecompileEntry that loads both sources into m_vs[i]
RecompileEntryVsTwice(c, i, vsCompiled, psCompiled) ==
    LET c1 == Compile(c, c.vs[i], vsCompiled)
        c2 == Compile(c1, c.vs[i], psCompiled)
    IN  Report(SetState(c2, c.mi[i], vsCompiled, psCompiled),
               NameOf(c.mi[i]), vsCompiled, psCompiled)

\* the body of  if (strcmp(item->Name, name) == 0)
RecompileEntry(c, i, vsCompiled, psCompiled) ==
    LET c1 == Compile(c, c.vs[i], vsCompiled)
        c2 == Compile(c1, c.ps[i], psCompiled)
    IN  Report(SetState(c2, c.mi[i], vsCompiled, psCompiled),
               NameOf(c.mi[i]), vsCompiled, psCompiled)

\* NameMatches without the  == 0 : strcmp is nonzero when the names differ
NameMatchesNonzero(d, name) == NameOf(d) # name

\* strcmp(item->Name, name) == 0
NameMatches(d, name) == NameOf(d) = name

RECURSIVE RecompileLoop(_, _, _)
RecompileLoop(c, name, i) ==
    IF i > Len(c.mi) THEN {c}
    ELSE IF NameMatches(c.mi[i], name)
         THEN UNION { RecompileLoop(RecompileEntry(c, i, v, p), name, i + 1) :
                        v \in BOOLEAN, p \in BOOLEAN }
         ELSE RecompileLoop(c, name, i + 1)

\* RenderEngine::Recompile(name)
Recompile(name) ==
    /\ Running
    /\ \E c \in RecompileLoop(Ctx, name, 1) : Commit(c)
    /\ lastOp' = [op |-> "Recompile", arg |-> name]
    /\ UNCHANGED <<items, m_lastSize, elapsed>>

\* ------------------------------------------------------------- FlushCache
RECURSIVE DeleteAll(_, _, _)
DeleteAll(c, objs, i) ==
    IF i > Len(objs) THEN c ELSE DeleteAll(Delete(c, objs[i]), objs, i + 1)

\* Flushed with the second loop running over m_vs again
FlushedVsTwice ==
    LET c1 == DeleteAll(Ctx, m_vs, 1)
        c2 == DeleteAll(c1, m_vs, 1)
    IN  [c2 EXCEPT !.vs = <<>>, !.ps = <<>>, !.mi = <<>>, !.st = <<>>]

\* the body of FlushCache: two delete loops and three clear()
Flushed ==
    LET c1 == DeleteAll(Ctx, m_vs, 1)
        c2 == DeleteAll(c1, m_ps, 1)
    IN  [c2 EXCEPT !.vs = <<>>, !.ps = <<>>, !.mi = <<>>, !.st = <<>>]

\* RenderEngine::FlushCache()
FlushCache ==
    /\ Running
    /\ Commit(Flushed)
    /\ lastOp' = [op |-> "FlushCache", arg |-> <<>>]
    /\ UNCHANGED <<items, m_lastSize, elapsed>>

\* RenderEngine::~RenderEngine(): FlushCache(), then the engine is gone
Destructor ==
    /\ Running
    /\ Commit(Flushed)
    /\ lastOp' = [op |-> "~RenderEngine", arg |-> <<>>]
    /\ UNCHANGED <<items, m_lastSize, elapsed>>

\* ------------------------------------------------------------ environment
\* the pipeline manager adds item d at position p of its list
AddItem(d, p) ==
    /\ Running
    /\ Len(items) < MaxLen
    /\ ~Found(d, items)
    /\ p \in 1..Len(items) + 1
    /\ items' = InsertAt(items, p, d)
    /\ lastOp' = [op |-> "Edit", arg |-> <<>>]
    /\ calls' = <<>>
    /\ UNCHANGED <<m_items, m_vs, m_ps, m_lastSize, elapsed, heap, passState,
                   msgs, crashed>>

\* the pipeline manager removes the item at position p
RemoveItem(p) ==
    /\ Running
    /\ p \in 1..Len(items)
    /\ items' = EraseAt(items, p)
    /\ lastOp' = [op |-> "Edit", arg |-> <<>>]
    /\ calls' = <<>>
    /\ UNCHANGED <<m_items, m_vs, m_ps, m_lastSize, elapsed, heap, passState,
                   msgs, crashed>>

\* the pipeline manager moves the item at position p to position q
MoveItem(p, q) ==
    /\ Running
    /\ p \in 1..Len(items)
    /\ q \in 1..Len(items)
    /\ p # q
    /\ items' = InsertAt(EraseAt(items, p), q, items[p])
    /\ lastOp' = [op |-> "Edit", arg |-> <<>>]
    /\ calls' = <<>>
    /\ UNCHANGED <<m_items, m_vs, m_ps, m_lastSize, elapsed, heap, passState,
                   msgs, crashed>>

\* half a time-unit passes on m_cacheTimer
Tick ==
    /\ Running
    /\ elapsed < MaxElapsed
    /\ elapsed' = elapsed + 1
    /\ lastOp' = [op |-> "Tick", arg |-> <<>>]
    /\ calls' = <<>>
    /\ UNCHANGED <<items, m_items, m_vs, m_ps, m_lastSize, heap, passState,
                   msgs, crashed>>

\* ---------------------------------------------------------- specification
Init ==
    /\ items = <<>>
    /\ m_items = <<>>
    /\ m_vs = <<>>
    /\ m_ps = <<>>
    /\ m_lastSize = <<0, 0>>
    /\ elapsed = 0
    /\ heap = {}
    /\ passState = <<>>
    /\ msgs = {}
    /\ calls = <<>>
    /\ lastOp = [op |-> "Init", arg |-> <<>>]
    /\ crashed = FALSE

Next ==
    \/ \E size \in Sizes : Render(size[1], size[2])
    \/ \E name \in Names : Recompile(name)
    \/ FlushCache
    \/ Destructor
    \/ \E d \in Ids, p \in 1..MaxLen : AddItem(d, p)
    \/ \E p \in 1..MaxLen : RemoveItem(p)
    \/ \E p \in 1..MaxLen, q \in 1..MaxLen : MoveItem(p, q)
    \/ Tick

Spec == Init /\ [][Next]_vars

\* -------------------------------------------- reordering of a cached list
\* The engine has cached an external list of up to ReorderLen items (all
\* compiles succeeded), the timer has run out, and the list has since been
\* permuted; from there on the list is left alone.
ReorderLists ==
    {s \in UNION {[1..n -> 1..ReorderLen] : n \in 0..ReorderLen} : Distinct(s)}

InitReorder ==
    /\ items \in ReorderLists
    /\ m_items \in {s \in ReorderLists : Len(s) = Len(items)
                                         /\ Range(s) = Range(items)}
    /\ m_vs = [i \in 1..Len(m_items) |->
                [stage |-> "vs", owner |-> m_items[i], n |-> 0]]
    /\ m_ps = [i \in 1..Len(m_items) |->
                [stage |-> "ps", owner |-> m_items[i], n |-> 0]]
    /\ m_lastSize = <<1, 1>>
    /\ elapsed = MaxElapsed
    /\ heap = Range(m_vs) \cup Range(m_ps)
    /\ passState = [d \in Range(m_items) |-> "Ready"]
    /\ msgs = {}
    /\ calls = <<>>
    /\ lastOp = [op |-> "Edit", arg |-> <<>>]
    /\ crashed = FALSE

NextReorder ==
    \/ \E size \in Sizes : Render(size[1], size[2])
    \/ Tick

SpecReorder == InitReorder /\ [][NextReorder]_vars

\* ------------------------------------------------- resizing of the viewport
\* The window is resized between frames while passes are added to the list.
Dims == 0..MaxDim

NextResize ==
    \/ \E width \in Dims, height \in Dims : Render(width, height)
    \/ \E d \in Ids, p \in 1..MaxLen : AddItem(d, p)

SpecResize == Init /\ [][NextResize]_vars

\* ------------------------------------------- the list is no longer edited
\* The engine holds a cache for some earlier state of the external list
\* (all compiles succeeded); the list has been edited since and is left
\* alone from here on, while frames keep being rendered and time passes.
SettledLists ==
    {s \in UNION {[1..n -> Ids] : n \in 0..MaxLen} : Distinct(s)}

InitSettled ==
    /\ items \in SettledLists
    /\ m_items \in SettledLists
    /\ m_vs = [i \in 1..Len(m_items) |->
                [stage |-> "vs", owner |-> m_items[i], n |-> 0]]
    /\ m_ps = [i \in 1..Len(m_items) |->
                [stage |-> "ps", owner |-> m_items[i], n |-> 0]]
    /\ m_lastSize = <<1, 1>>
    /\ elapsed = 0
    /\ heap = Range(m_vs) \cup Range(m_ps)
    /\ passState = [d \in Range(m_items) |-> "Ready"]
    /\ msgs = {}
    /\ calls = <<>>
    /\ lastOp = [op |-> "Edit", arg |-> <<>>]
    /\ crashed = FALSE

RenderFrame == \E size \in Sizes : Render(size[1], size[2])

NextSettled ==
    \/ RenderFrame
    \/ Tick

\* the main loop renders a frame whenever it can, and the clock runs
SpecSettled ==
    InitSettled /\ [][NextSettled]_vars /\ WF_vars(RenderFrame) /\ WF_vars(Tick)

\* ------------------------------------------------------------- properties
\* positions of the calls of kind op in a log
OpsOf(log, op) == {k \in DOMAIN log : log[k].op = op}

\* positions of the compile calls on object o in a log
CompilesOf(log, o) ==
    {k \in DOMAIN log : log[k].op = "compile" /\ log[k].obj = o}

\* positions of the delete calls on object o in a log
DeletesOf(log, o) ==
    {k \in DOMAIN log : log[k].op = "delete" /\ log[k].obj = o}

\* this step is a Render whose m_cache ran the three loops
ScanStep == lastOp'.op = "Render" /\ ~Throttled(Ctx, items, elapsed)

\* C1: after a Render in which m_cache performs a full scan, the snapshot
\* m_items is the external list: same length, same identities, same order.
C1_ScanPostcondition ==
    [][ScanStep => m_items' = items']_vars

\* C2: when the snapshot equals the external list without its item at
\* position p, the next Render creates exactly one cache entry, at index p of
\* m_items, m_vs and m_ps, issues exactly one vertex and one pixel compile
\* (on the two new objects), deletes nothing and leaves the entries and the
\* compile state of every other identity as they were.
C2_Insertion ==
    [][lastOp'.op = "Render" =>
        \A p \in 1..Len(items) :
            EraseAt(items, p) = m_items =>
                /\ m_items' = items
                /\ Len(m_vs') = Len(m_vs) + 1
                /\ Len(m_ps') = Len(m_ps) + 1
                /\ EraseAt(m_vs', p) = m_vs
                /\ EraseAt(m_ps', p) = m_ps
                /\ m_vs'[p] \notin heap
                /\ m_ps'[p] \notin heap
                /\ heap' = heap \cup {m_vs'[p], m_ps'[p]}
                /\ Cardinality(OpsOf(calls', "new")) = 2
                /\ Cardinality(OpsOf(calls', "compile")) = 2
                /\ Cardinality(CompilesOf(calls', m_vs'[p])) = 1
                /\ Cardinality(CompilesOf(calls', m_ps'[p])) = 1
                /\ OpsOf(calls', "delete") = {}
                /\ \A d \in Range(m_items) : passState'[d] = passState[d]
    ]_vars

\* a Render has inserted one new entry in front of an entry cached before
C2_Witness ==
    /\ lastOp.op = "Render"
    /\ Len(m_items) = 2
    /\ m_items = items
    /\ Cardinality(OpsOf(calls, "new")) = 2
    /\ OpsOf(calls, "delete") = {}
    /\ OpsOf(calls, "move") = {}
    /\ \E k \in OpsOf(calls, "new") : calls[k].obj = m_vs[1]

\* C3: after a full scan no snapshot item is missing from the external list,
\* the objects of every such item have been deleted, and the entries that
\* stay keep their objects and are not compiled.
C3_Removal ==
    [][ScanStep =>
        /\ \A i \in 1..Len(m_items') : Found(m_items'[i], items)
        /\ \A i \in 1..Len(m_items) :
              IF Found(m_items[i], items)
              THEN /\ m_vs[i] \in Range(m_vs')
                   /\ m_ps[i] \in Range(m_ps')
                   /\ CompilesOf(calls', m_vs[i]) = {}
                   /\ CompilesOf(calls', m_ps[i]) = {}
              ELSE /\ m_vs[i] \notin heap'
                   /\ m_ps[i] \notin heap'
    ]_vars

\* C4: when the external list is a permutation of the snapshot and m_cache
\* runs a full scan, the snapshot ends in the order of the external list and
\* no object is compiled, created or deleted.
C4_PureReorder ==
    [][(ScanStep /\ Len(m_items) = Len(items)
                 /\ Range(m_items) = Range(items)) =>
        /\ m_items' = items
        /\ OpsOf(calls', "compile") = {}
        /\ OpsOf(calls', "new") = {}
        /\ OpsOf(calls', "delete") = {}
    ]_vars

\* C5: a Render that directly follows a Render, with the cache timer at no
\* more than 0.5, changes none of m_items, m_vs, m_ps and compiles nothing.
C5_Idempotence ==
    [][(lastOp.op = "Render" /\ lastOp'.op = "Render"
            /\ elapsed <= CacheDelay) =>
        /\ m_items' = m_items
        /\ m_vs' = m_vs
        /\ m_ps' = m_ps
        /\ OpsOf(calls', "compile") = {}
    ]_vars

\* C6: outside of a call that died, m_items, m_vs and m_ps have the same
\* length and m_vs[i], m_ps[i] are the vertex and the pixel object created
\* for the identity m_items[i].
C6_LockStep ==
    ~crashed =>
        /\ Len(m_vs) = Len(m_items)
        /\ Len(m_ps) = Len(m_items)
        /\ \A i \in 1..Len(m_items) :
              /\ m_vs[i].stage = "vs" /\ m_vs[i].owner = m_items[i]
              /\ m_ps[i].stage = "ps" /\ m_ps[i].owner = m_items[i]

\* a Render has moved an entry to another index
C6_Witness ==
    /\ lastOp.op = "Render"
    /\ ~crashed
    /\ Len(m_items) >= 2
    /\ \E k \in OpsOf(calls, "move") : calls[k].from # calls[k].to

\* C7: while the external list holds no identity twice, no two entries of
\* the snapshot m_items have the same identity.
C7_NoDuplicates ==
    Distinct(items) => Distinct(m_items)

\* a Render has inserted an entry and moved another one in the same scan
C7_Witness ==
    /\ lastOp.op = "Render"
    /\ Len(m_items) >= 2
    /\ OpsOf(calls, "new") # {}
    /\ \E k \in OpsOf(calls, "move") : calls[k].from # calls[k].to

\* C8: no object is deleted twice; m_cache deletes no object whose identity
\* is in the external list; after a full scan no object of an identity that
\* left the external list is alive, and after FlushCache none at all; every
\* object in m_vs and m_ps is alive.
C8_Lifetime ==
    [][lastOp'.op \in {"Render", "Recompile", "FlushCache"} =>
        /\ \A k \in OpsOf(calls', "delete") :
              /\ calls'[k].obj \in heap
              /\ Cardinality(DeletesOf(calls', calls'[k].obj)) = 1
              /\ lastOp'.op = "Render" => ~Found(calls'[k].obj.owner, items)
        /\ ScanStep => \A o \in heap' : Found(o.owner, items)
        /\ lastOp'.op = "FlushCache" => heap' = {}
        /\ Range(m_vs') \cup Range(m_ps') \subseteq heap'
    ]_vars

\* C9: Recompile(name) compiles only objects of snapshot entries named name
\* and calls Add / ClearGroup only for the group name; the diagnostics and
\* the compile state of every other name are unchanged, and m_items, m_vs,
\* m_ps and the set of live objects are exactly as before.
C9_RecompileFrame ==
    [][lastOp'.op = "Recompile" =>
        /\ m_items' = m_items
        /\ m_vs' = m_vs
        /\ m_ps' = m_ps
        /\ heap' = heap
        /\ \A k \in OpsOf(calls', "compile") :
              \E i \in 1..Len(m_items) :
                  /\ NameOf(m_items[i]) = lastOp'.arg
                  /\ calls'[k].obj \in {m_vs[i], m_ps[i]}
        /\ \A k \in OpsOf(calls', "Add") \cup OpsOf(calls', "ClearGroup") :
              calls'[k].group = lastOp'.arg
        /\ \A g \in Names \ {lastOp'.arg} : (g \in msgs') <=> (g \in msgs)
        /\ \A d \in Range(m_items) :
              NameOf(d) # lastOp'.arg => passState'[d] = passState[d]
    ]_vars

\* Recompile has compiled a pass while a pass of another name is cached
C9_Witness ==
    /\ lastOp.op = "Recompile"
    /\ OpsOf(calls, "compile") # {}
    /\ \E i, j \in 1..Len(m_items) :
          /\ NameOf(m_items[i]) = lastOp.arg
          /\ NameOf(m_items[j]) # lastOp.arg

\* C10 as stated: Recompile(name) compiles every item of the external list
\* whose name is name, cached or not.
C10_AllListed ==
    [][lastOp'.op = "Recompile" =>
        \A d \in Range(items) :
            NameOf(d) = lastOp'.arg =>
                \E k \in OpsOf(calls', "compile") : calls'[k].obj.owner = d
    ]_vars

\* C10: Recompile(name) compiles, once each, the vertex and the pixel object
\* of every snapshot entry whose name is name, whatever the cache timer shows.
C10_AllCached ==
    [][lastOp'.op = "Recompile" =>
        \A i \in 1..Len(m_items) :
            NameOf(m_items[i]) = lastOp'.arg =>
                /\ Cardinality(CompilesOf(calls', m_vs[i])) = 1
                /\ Cardinality(CompilesOf(calls', m_ps[i])) = 1
    ]_vars

\* Recompile has compiled a cached pass inside the throttle window while an
\* item of the same name is in the external list and not in the snapshot
C10_Witness ==
    /\ lastOp.op = "Recompile"
    /\ elapsed <= CacheDelay
    /\ Len(m_items) = Len(items)
    /\ OpsOf(calls, "compile") # {}
    /\ \E d \in Range(items) :
          NameOf(d) = lastOp.arg /\ ~Found(d, m_items)

\* the identities of the passes a log shows being inserted
InsertedIn(log) == {log[k].obj.owner : k \in OpsOf(log, "new")}

\* every compile the log shows for an object of pass d succeeded
CompiledOk(log, d) ==
    \A k \in OpsOf(log, "compile") : log[k].obj.owner = d => log[k].ok

\* the log shows the draw loop iterating pass d and each of its children
DrawnIn(log, d) ==
    /\ \E k \in OpsOf(log, "DefaultState") : log[k].item = d
    /\ \A n \in 1..Len(Children(d)) :
          \E k \in OpsOf(log, Children(d)[n]) :
              log[k].item = d /\ log[k].child = n

\* C11: when a full scan that returns has inserted exactly two passes a and
\* b of different names, both stages of a compiled and a stage of b failed,
\* then afterwards the group of b holds an error entry and the group of a
\* holds none, both have a cache entry with live objects (a Ready, b Failed)
\* and the draw loop of that frame has iterated both passes and children.
C11_FailureIsolation ==
    [][(ScanStep /\ ~crashed') =>
        \A a, b \in InsertedIn(calls') :
            (/\ InsertedIn(calls') = {a, b}
             /\ NameOf(a) # NameOf(b)
             /\ CompiledOk(calls', a)
             /\ ~CompiledOk(calls', b)) =>
                /\ NameOf(b) \in msgs'
                /\ NameOf(a) \notin msgs'
                /\ \A d \in {a, b} :
                      \E i \in 1..Len(m_items') :
                          /\ m_items'[i] = d
                          /\ {m_vs'[i], m_ps'[i]} \subseteq heap'
                /\ passState'[a] = "Ready"
                /\ passState'[b] = "Failed"
                /\ DrawnIn(calls', a)
                /\ DrawnIn(calls', b)
    ]_vars

\* a Render has inserted two passes of different names, one compiled and
\* one failed, and has drawn both
C11_Witness ==
    /\ lastOp.op = "Render"
    /\ Cardinality(InsertedIn(calls)) = 2
    /\ \E a, b \in InsertedIn(calls) :
          /\ NameOf(a) # NameOf(b)
          /\ CompiledOk(calls, a)
          /\ ~CompiledOk(calls, b)
          /\ DrawnIn(calls, a)
          /\ DrawnIn(calls, b)

\* C12: a Render(width, height) creates the render-target texture and its
\* view, once each and with that size, exactly when (width, height) is not
\* the size m_lastSize recorded by the previous Render ((0, 0) before the
\* first); otherwise it creates neither and m_lastSize stays as it was.
C12_RenderTarget ==
    [][lastOp'.op = "Render" =>
        IF lastOp'.arg # m_lastSize
        THEN /\ Cardinality(OpsOf(calls', "CreateRT")) = 1
             /\ Cardinality(OpsOf(calls', "CreateRTView")) = 1
             /\ \A k \in OpsOf(calls', "CreateRT")
                            \cup OpsOf(calls', "CreateRTView") :
                    calls'[k].size = lastOp'.arg
             /\ m_lastSize' = lastOp'.arg
        ELSE /\ OpsOf(calls', "CreateRT") = {}
             /\ OpsOf(calls', "CreateRTView") = {}
             /\ m_lastSize' = m_lastSize
    ]_vars

\* a Render with the size of the Render before it, after a resize that
\* changed only one of width and height from the initial (0, 0)
C12_Witness ==
    /\ lastOp.op = "Render"
    /\ OpsOf(calls, "CreateRT") = {}
    /\ m_lastSize[1] = 0
    /\ m_lastSize[2] # 0

\* C13: FlushCache, called directly or by the destructor, deletes every
\* object of m_vs and m_ps exactly once, deletes nothing else and leaves
\* m_items, m_vs and m_ps empty; on an empty cache it deletes nothing and
\* leaves the cache, the live objects and the diagnostics as they were.
C13_Flush ==
    [][lastOp'.op \in {"FlushCache", "~RenderEngine"} =>
        /\ m_items' = <<>>
        /\ m_vs' = <<>>
        /\ m_ps' = <<>>
        /\ ~crashed'
        /\ \A o \in Range(m_vs) \cup Range(m_ps) :
              Cardinality(DeletesOf(calls', o)) = 1
        /\ Cardinality(OpsOf(calls', "delete")) = Len(m_vs) + Len(m_ps)
        /\ heap' = heap \ (Range(m_vs) \cup Range(m_ps))
        /\ msgs' = msgs
        /\ (m_vs = <<>> /\ m_ps = <<>>) =>
              /\ calls' = <<>>
              /\ heap' = heap
              /\ m_items' = m_items
    ]_vars

\* the destructor has run on a cache of two entries
C13_Witness ==
    /\ lastOp.op = "~RenderEngine"
    /\ Cardinality(OpsOf(calls, "delete")) = 4
    /\ m_items = <<>>
    /\ heap = {}

IsSetInputLayout(e) == e.op = "SetInputLayout"

IsBind(e) == e.op = "Bind"

\* the passes a log shows the draw loop taking up, in that order
DrawOrder(log) ==
    LET s == SelectSeq(log, IsSetInputLayout)
    IN  [k \in 1..Len(s) |-> s[k].item]

\* the shader objects a log shows being bound, in that order
BindOrder(log) ==
    LET s == SelectSeq(log, IsBind)
    IN  [k \in 1..Len(s) |-> s[k].obj]

\* C14 as stated: in every Render that returns, throttled or not, the
\* passes are taken up in the order of the external list at that call.
C14_ListOrder ==
    [][(lastOp'.op = "Render" /\ ~crashed') =>
        DrawOrder(calls') = items
    ]_vars

\* C14: in every Render that returns, the passes are taken up in the order
\* of the snapshot m_items as m_cache left it, each with the objects m_vs[i]
\* and m_ps[i] of its index; when m_cache skipped the scan this is the order
\* of the snapshot before the call, whatever the external list is now.
C14_SnapshotOrder ==
    [][(lastOp'.op = "Render" /\ ~crashed') =>
        /\ DrawOrder(calls') = m_items'
        /\ Len(BindOrder(calls')) = 2 * Len(m_items')
        /\ \A i \in 1..Len(m_items') :
              /\ BindOrder(calls')[2 * i - 1] = m_vs'[i]
              /\ BindOrder(calls')[2 * i] = m_ps'[i]
        /\ Throttled(Ctx, items, elapsed) => DrawOrder(calls') = m_items
    ]_vars

\* a Render inside the throttle window has drawn two passes in the order of
\* the snapshot while the external list holds them in the other order
C14_Witness ==
    /\ lastOp.op = "Render"
    /\ ~crashed
    /\ Len(m_items) = 2
    /\ Len(items) = 2
    /\ Range(m_items) = Range(items)
    /\ m_items # items
    /\ DrawOrder(calls) = m_items

ReportsOf(log, g) ==
    {k \in DOMAIN log : log[k].op \in {"Add", "ClearGroup"}
                          /\ log[k].group = g}

\* the identities of the passes a log shows being compiled
CompiledIn(log) == {log[k].obj.owner : k \in OpsOf(log, "compile")}

\* C16 as stated: while a cached pass is Failed, the group of its name holds
\* an error entry.
C16_PerPass ==
    ~crashed =>
        \A i \in 1..Len(m_items) :
            passState[m_items[i]] = "Failed" => NameOf(m_items[i]) \in msgs

\* C16: a compile through insertion or Recompile leaves the pass Ready when
\* both stages succeeded and Failed otherwise, and is followed by Add for
\* the group of its name when it failed and by ClearGroup when it succeeded;
\* the group of a name holds an error entry exactly when the latest compile
\* of any pass of that name failed, and is untouched by other operations.
C16_ByName ==
    [][(lastOp'.op \in {"Render", "Recompile"} /\ ~crashed') =>
        /\ \A d \in CompiledIn(calls') :
              /\ d \in DOMAIN passState'
              /\ passState'[d] =
                    IF CompiledOk(calls', d) THEN "Ready" ELSE "Failed"
        /\ \A d \in DOMAIN passState' \ CompiledIn(calls') :
              passState'[d] = passState[d]
        /\ \A g \in Names :
              LET ks == ReportsOf(calls', g)
              IN  /\ \A k \in ks :
                        /\ k >= 3
                        /\ calls'[k - 1].op = "compile"
                        /\ calls'[k - 2].op = "compile"
                        /\ NameOf(calls'[k - 1].obj.owner) = g
                        /\ calls'[k - 2].obj.owner = calls'[k - 1].obj.owner
                        /\ (calls'[k].op = "Add") <=>
                              ~(calls'[k - 1].ok /\ calls'[k - 2].ok)
                  /\ IF ks = {}
                     THEN (g \in msgs') <=> (g \in msgs)
                     ELSE LET last == CHOOSE k \in ks : \A m \in ks : m <= k
                          IN  (g \in msgs') <=> (calls'[last].op = "Add")
        /\ Cardinality(OpsOf(calls', "compile")) =
              2 * Cardinality(OpsOf(calls', "Add")
                              \cup OpsOf(calls', "ClearGroup"))
    ]_vars

\* two cached passes share a name, one is Failed, the other has compiled
\* since, and the group of their name holds no error entry
C16_Witness ==
    /\ ~crashed
    /\ \E i, j \in 1..Len(m_items) :
          /\ i # j
          /\ NameOf(m_items[i]) = NameOf(m_items[j])
          /\ passState[m_items[i]] = "Failed"
          /\ passState[m_items[j]] = "Ready"
          /\ NameOf(m_items[i]) \notin msgs

\* positions of the calls a log shows for child items of a pass
ChildCalls(log) ==
    {k \in DOMAIN log :
        log[k].op \in {"Geometry", "BlendState", "DepthStencilState"}}

\* C17: in every Render that returns, each pass of the snapshot has its
\* children processed, all of them and in list order; the call just before
\* the first child of a pass binds the default state, and the two calls
\* before that bind the vertex and the pixel object of that pass; the last
\* call of the frame binds the window render target.
C17_DefaultState ==
    [][(lastOp'.op = "Render" /\ ~crashed') =>
        /\ \A i \in 1..Len(m_items') : DrawnIn(calls', m_items'[i])
        /\ \A k \in ChildCalls(calls') :
              IF calls'[k].child = 1
              THEN /\ k >= 4
                   /\ calls'[k - 1].op = "DefaultState"
                   /\ calls'[k - 1].item = calls'[k].item
                   /\ calls'[k - 2].op = "Bind"
                   /\ calls'[k - 3].op = "Bind"
                   /\ \E i \in 1..Len(m_items') :
                         /\ m_items'[i] = calls'[k].item
                         /\ calls'[k - 3].obj = m_vs'[i]
                         /\ calls'[k - 2].obj = m_ps'[i]
              ELSE /\ k - 1 \in ChildCalls(calls')
                   /\ calls'[k - 1].item = calls'[k].item
                   /\ calls'[k - 1].child = calls'[k].child - 1
        /\ calls'[Len(calls')].op = "BindWindow"
    ]_vars

\* a frame has drawn two passes, the first of which ends with a
\* DepthStencilState child
C17_Witness ==
    /\ lastOp.op = "Render"
    /\ ~crashed
    /\ Len(m_items) = 2
    /\ Children(m_items[1])[2] = "DepthStencilState"
    /\ DrawnIn(calls, m_items[1])
    /\ DrawnIn(calls, m_items[2])

\* C18: a full scan ends no process by an out-of-range access, and when its
\* move loop runs (and so when it returns: a move keeps the length) the
\* snapshot is no longer than the external list, so that every items[i] the
\* move loop reads is inside the external list.
C18_IndexSafety ==
    [][ScanStep =>
        /\ ~crashed'
        /\ Len(m_items') <= Len(items)
    ]_vars

\* C19: every snapshot entry the draw loop of a Render takes up, and every
\* snapshot entry the loop of a Recompile inspects, is an item of the
\* external list at the time of that call.
C19_NoStaleItem ==
    [][/\ (lastOp'.op = "Render" /\ ~crashed') =>
              \A k \in OpsOf(calls', "SetInputLayout") :
                  Found(calls'[k].item, items)
       /\ lastOp'.op = "Recompile" =>
              \A i \in 1..Len(m_items) : Found(m_items[i], items)
    ]_vars

\* the snapshot is the external list and the objects are those of its items
Converged ==
    /\ ~crashed
    /\ m_items = items
    /\ Len(m_vs) = Len(m_items)
    /\ Len(m_ps) = Len(m_items)
    /\ \A i \in 1..Len(m_items) :
          /\ m_vs[i].stage = "vs" /\ m_vs[i].owner = m_items[i]
          /\ m_ps[i].stage = "ps" /\ m_ps[i].owner = m_items[i]

\* C20: once the external list is left alone, with frames being rendered and
\* time passing, the snapshot eventually equals the external list with
\* m_vs and m_ps aligned, and stays so for ever.
C20_Convergence == <>[]Converged

====
